---- MODULE Spec2Model ----
(***************************************************************************)
(* Model of the ACES workflow glue code:                                   *)
(*   - the patch reassembly loop of workflow/v2/5.prediction_dnn.py        *)
(*   - EEUtils.beam_get_training_patches.get_patch under retry.Retry       *)
(*   - EEUtils.export_training_data / _export_to_cloud_storage             *)
(*   - Utils.filter_good_patches                                           *)
(*   - Utils.plot_metrics                                                  *)
(* Each component has its own specification (SpecReasm, SpecRetry, ...);   *)
(* the variables of the other components stay at their idle values.        *)
(***************************************************************************)
EXTENDS Integers, Sequences, FiniteSets, TLC

VARIABLES
    \* ---- 5.prediction_dnn.py, lines 65-67 and 138-198
    patch_width, patch_height, patches, predictions,
    i, patch, cur_patch, written, writer_closed, pc,
    \* ---- utils.py, get_patch under @retry.Retry(timeout=300)
    throttled, final, now, deadline, delay, sleep, requests, status, exc, outcome, rpc,
    \* ---- utils.py, export_training_data
    tasks, calls, lastCall, exportOutcome,
    \* ---- utils.py, filter_good_patches
    fpatch, fpatch0, fresult, fpc,
    \* ---- utils.py, plot_metrics
    metrics, history, ax, pi, skipped, plotted, plotOutcome, ppc

reasmVars  == <<patch_width, patch_height, patches, predictions,
                i, patch, cur_patch, written, writer_closed, pc>>
retryVars  == <<throttled, final, now, deadline, delay, sleep, requests, status, exc,
                outcome, rpc>>
exportVars == <<tasks, calls, lastCall, exportOutcome>>
filterVars == <<fpatch, fpatch0, fresult, fpc>>
plotVars   == <<metrics, history, ax, pi, skipped, plotted, plotOutcome, ppc>>
vars == <<reasmVars, retryVars, exportVars, filterVars, plotVars>>

notReasm  == <<retryVars, exportVars, filterVars, plotVars>>
notRetry  == <<reasmVars, exportVars, filterVars, plotVars>>
notExport == <<reasmVars, retryVars, filterVars, plotVars>>
notFilter == <<reasmVars, retryVars, exportVars, plotVars>>
notPlot   == <<reasmVars, retryVars, exportVars, filterVars>>

(***************************************************************************)
(* Bounds of the model.                                                    *)
(***************************************************************************)
MaxDim == 2
MaxPatches == 2
MaxPredictions == 4

\* Sequences over S of length at most n.
SeqUpTo(S, n) == UNION {[1..k -> S] : k \in 0..n}

(***************************************************************************)
(* Idle values: the state of a component that is not running.              *)
(***************************************************************************)
EmptyPatch == <<<<>>, <<>>, <<>>, <<>>, <<>>, <<>>>>

ReasmIdle ==
    /\ patch_width = 1 /\ patch_height = 1 /\ patches = 0
    /\ predictions = <<>> /\ i = 0 /\ patch = EmptyPatch /\ cur_patch = 1
    /\ written = <<>> /\ writer_closed = FALSE /\ pc = "idle"

(***************************************************************************)
(* Patch reassembly loop, 5.prediction_dnn.py lines 138-198.               *)
(* A prediction is the row prediction[0]: five class scores (here in       *)
(* hundredths).                                                            *)
(***************************************************************************)
NumClasses == 5

ScoreVectors == { <<90, 5, 2, 2, 1>>, <<10, 70, 10, 5, 5>>, <<10, 10, 40, 40, 0>> }

\* np.argmax: the index (from 0) of the first maximal entry.
ArgMax(v) ==
    (CHOOSE k \in 1..Len(v) :
        /\ \A m \in 1..Len(v) : v[m] <= v[k]
        /\ \A m \in 1..(k - 1) : v[m] < v[k]) - 1

\* Slip: the last score column is filled from column 3 again.
AppendPredictionSlip(p, prediction) ==
    << Append(p[1], ArgMax(prediction)),
       Append(p[2], prediction[1]),
       Append(p[3], prediction[2]),
       Append(p[4], prediction[3]),
       Append(p[5], prediction[4]),
       Append(p[6], prediction[4]) >>

\* lines 152-157
AppendPrediction(p, prediction) ==
    << Append(p[1], ArgMax(prediction)),
       Append(p[2], prediction[1]),
       Append(p[3], prediction[2]),
       Append(p[4], prediction[3]),
       Append(p[5], prediction[4]),
       Append(p[6], prediction[5]) >>

\* lines 167-190: the tf.train.Example built from the buffer.
Example(p) ==
    [ prediction   |-> p[1],
      cropland_etc |-> p[2],
      rice         |-> p[3],
      forest       |-> p[4],
      urban        |-> p[5],
      others_etc   |-> p[6] ]

\* Slip: compares the buffer with the patch width only.
PatchFullWidthOnly(p) == Len(p[1]) = patch_width

\* line 163
PatchFull(p) == Len(p[1]) = patch_width * patch_height

\* Slip: only the class-index list is cleared (the commented-out line 148).
ClearedPatchFirstOnly(p) == <<<<>>, p[2], p[3], p[4], p[5], p[6]>>

\* line 195
ClearedPatch(p) == EmptyPatch

InitReasm ==
    /\ patch_width \in 1..MaxDim
    /\ patch_height \in 1..MaxDim
    /\ patches \in 0..MaxPatches
    /\ predictions \in SeqUpTo(ScoreVectors, MaxPredictions)
    /\ i = 0
    /\ patch = EmptyPatch
    /\ cur_patch = 1
    /\ written = <<>>
    /\ writer_closed = FALSE
    /\ pc = "for"

\* lines 151-157: the next prediction is appended to the six lists.
AppendStep ==
    /\ UNCHANGED notReasm
    /\ pc = "for"
    /\ i < Len(predictions)
    /\ patch' = AppendPrediction(patch, predictions[i + 1])
    /\ pc' = "if"
    /\ UNCHANGED <<patch_width, patch_height, patches, predictions,
                   i, cur_patch, written, writer_closed>>

\* lines 163-196: a full buffer is written as one record and cleared.
FlushStep ==
    /\ UNCHANGED notReasm
    /\ pc = "if"
    /\ PatchFull(patch)
    /\ written' = Append(written, Example(patch))
    /\ patch' = ClearedPatch(patch)
    /\ cur_patch' = cur_patch + 1
    /\ i' = i + 1
    /\ pc' = "for"
    /\ UNCHANGED <<patch_width, patch_height, patches, predictions, writer_closed>>

\* line 163, condition false: next iteration.
SkipStep ==
    /\ UNCHANGED notReasm
    /\ pc = "if"
    /\ ~PatchFull(patch)
    /\ i' = i + 1
    /\ pc' = "for"
    /\ UNCHANGED <<patch_width, patch_height, patches, predictions,
                   patch, cur_patch, written, writer_closed>>

\* Slip: the writer flushes the partial buffer before closing.
CloseStepFlushing ==
    /\ UNCHANGED notReasm
    /\ pc = "for"
    /\ i = Len(predictions)
    /\ written' = IF Len(patch[1]) > 0 THEN Append(written, Example(patch)) ELSE written
    /\ writer_closed' = TRUE
    /\ pc' = "done"
    /\ UNCHANGED <<patch_width, patch_height, patches, predictions,
                   i, patch, cur_patch>>

\* line 198: the loop is exhausted, the writer is closed.
CloseStep ==
    /\ UNCHANGED notReasm
    /\ pc = "for"
    /\ i = Len(predictions)
    /\ writer_closed' = TRUE
    /\ pc' = "done"
    /\ UNCHANGED <<patch_width, patch_height, patches, predictions,
                   i, patch, cur_patch, written>>

NextReasm == AppendStep \/ FlushStep \/ SkipStep \/ CloseStep

\* PatchSize: the capacity of one output patch (line 163, line 130).
PatchSize == patch_width * patch_height

\* v[k + 1] is maximal in v: k is an argmax of the score vector.
IsArgMaxOf(k, v) == k \in 0..(Len(v) - 1) /\ \A m \in 1..Len(v) : v[m] <= v[k + 1]

ScoreFields(r) == <<r.cropland_etc, r.rice, r.forest, r.urban, r.others_etc>>

AllFields(r) == <<r.prediction>> \o ScoreFields(r)

\* C1: when exactly patches * patch_width * patch_height predictions are fed,
\* the finished loop has written exactly `patches` records, and every record
\* written has all six fields of length patch_width * patch_height.
C1_ExactRecords ==
    /\ \A k \in 1..Len(written) : \A f \in 1..6 : Len(AllFields(written[k])[f]) = PatchSize
    /\ (pc = "done" /\ Len(predictions) = patches * PatchSize) => Len(written) = patches

C1_Witness ==
    /\ pc = "done" /\ patches = 2 /\ PatchSize = 2
    /\ Len(predictions) = 4 /\ Len(written) = 2

\* C2: the k-th record written holds, at position j, the class index (an argmax)
\* and the five scores of input prediction number (k-1)*PatchSize + j, and the
\* patch ordinal cur_patch is always one more than the number of records written,
\* so records are written in strictly increasing ordinal.
C2_OrderPreserved ==
    /\ cur_patch = Len(written) + 1
    /\ \A k \in 1..Len(written) :
         /\ Len(written[k].prediction) = PatchSize
         /\ k * PatchSize <= Len(predictions)
         /\ \A j \in 1..PatchSize :
              LET p == predictions[(k - 1) * PatchSize + j] IN
              /\ IsArgMaxOf(written[k].prediction[j], p)
              /\ \A c \in 1..NumClasses :
                   /\ Len(ScoreFields(written[k])[c]) = PatchSize
                   /\ ScoreFields(written[k])[c][j] = p[c]

C2_Witness ==
    /\ Len(written) = 2 /\ PatchSize = 2
    /\ written[1].prediction = <<0, 1>>
    /\ written[2].prediction = <<2, 0>>

\* C3: in every state of the loop the buffer holds at most patch_width *
\* patch_height entries and its six lists have equal length.
C3_BufferBounded ==
    /\ Len(patch[1]) <= PatchSize
    /\ \A f \in 1..6 : Len(patch[f]) = Len(patch[1])

C3_Witness ==
    /\ pc = "if" /\ PatchSize = 4 /\ Len(patch[1]) = 4 /\ Len(patch[6]) = 4

\* C4: when the number of predictions n is no multiple of PatchSize, the finished
\* loop has written exactly n \div PatchSize records, the writer is closed, and
\* the trailing n % PatchSize predictions are still in the buffer and in no record.
C4_TrailingDropped ==
    (pc = "done" /\ Len(predictions) % PatchSize # 0) =>
        /\ writer_closed
        /\ Len(written) = Len(predictions) \div PatchSize
        /\ \A k \in 1..Len(written) : Len(written[k].prediction) = PatchSize
        /\ Len(patch[1]) = Len(predictions) % PatchSize
        /\ \A j \in 1..Len(patch[1]) :
             \A c \in 1..NumClasses :
                patch[c + 1][j] = predictions[Len(written) * PatchSize + j][c]

C4_Witness ==
    /\ pc = "done" /\ writer_closed /\ PatchSize = 2
    /\ Len(predictions) = 3 /\ Len(written) = 1 /\ Len(patch[1]) = 1

(***************************************************************************)
(* beam_get_training_patches: get_patch under @retry.Retry(timeout=300),   *)
(* utils.py lines 139-159 and 192.  Time is in whole seconds.  The server  *)
(* answers 429 to the first `throttled` requests and `final` to every      *)
(* later one; final = 429 is a server that always throttles.               *)
(***************************************************************************)
Timeout == 300
InitialDelay == 1
MaximumDelay == 60
Multiplier == 2

MaxThrottled == 4
FastRequest == 10
SlowRequest == 120

Statuses == {200, 429, 404, 500, 503}

\* How long one execution of get_patch (its two HTTP round trips) can take.
RequestTimes == {FastRequest, SlowRequest}

Min(a, b) == IF a <= b THEN a ELSE b

\* random.uniform(0.0, max_delay) of the sleep generator: both ends and the middle.
SleepChoices(d) == {0, d \div 2, d}

\* The answer to the r-th request.
Response(r) == IF r <= throttled THEN 429 ELSE final

\* Slip: 429 is left to raise_for_status like every other error.
RaisedByNo429Branch(code) ==
    IF code >= 400 /\ code < 600 THEN "HTTPError" ELSE "none"

\* lines 151-159: what get_patch raises for a response ("none": it returns the array).
RaisedBy(code) ==
    IF code = 429 THEN "TooManyRequests"
    ELSE IF code >= 400 /\ code < 600 THEN "HTTPError"
    ELSE "none"

\* Slip: a predicate that retries on every exception.
RetriesAnything(e) == TRUE

\* line 139: the default predicate of retry.Retry retries google.api_core's
\* transient errors; requests' HTTPError is none of them.
IfTransientError(e) == e \in {"TooManyRequests", "InternalServerError", "ServiceUnavailable"}

\* Slip: a Retry without a timeout never gives up.
NoDeadline(t, nextSleep) == FALSE

\* line 139: timeout=300, the wrapper gives up when the next sleep would pass the deadline.
DeadlinePassed(t, nextSleep) == t + nextSleep > deadline

RetryIdle ==
    /\ throttled = 0 /\ final = 200 /\ now = 0 /\ deadline = 0 /\ delay = 0
    /\ sleep = 0 /\ requests = 0 /\ status = 0 /\ exc = "none"
    /\ outcome = "none" /\ rpc = "idle"

\* line 192: get_patch(...) is called; the wrapper fixes its deadline.
InitRetry ==
    /\ final \in Statuses
    /\ throttled \in (IF final = 429 THEN {0} ELSE 0..MaxThrottled)
    /\ now = 0
    /\ deadline = Timeout
    /\ delay = Min(InitialDelay, MaximumDelay)
    /\ sleep = 0
    /\ requests = 0
    /\ status = 0
    /\ exc = "none"
    /\ outcome = "none"
    /\ rpc = "call"

\* One execution of get_patch (lines 143-159) inside the wrapper's loop, which
\* has drawn the sleep value that would follow it.
GetPatch ==
    /\ UNCHANGED notRetry
    /\ rpc = "call"
    /\ \E s \in SleepChoices(delay), d \in RequestTimes :
         /\ sleep' = s
         /\ now' = now + d
    /\ delay' = Min(delay * Multiplier, MaximumDelay)
    /\ requests' = requests + 1
    /\ status' = Response(requests + 1)
    /\ exc' = RaisedBy(Response(requests + 1))
    /\ IF RaisedBy(Response(requests + 1)) = "none"
         THEN outcome' = "payload" /\ rpc' = "done"
         ELSE outcome' = outcome /\ rpc' = "except"
    /\ UNCHANGED <<throttled, final, deadline>>

\* The wrapper's except clause: re-raise what is not retryable, give up when the
\* deadline would pass, otherwise go to sleep.
OnError ==
    /\ UNCHANGED notRetry
    /\ rpc = "except"
    /\ IF ~IfTransientError(exc)
         THEN outcome' = exc /\ rpc' = "done"
         ELSE IF DeadlinePassed(now, sleep)
                THEN outcome' = "RetryError" /\ rpc' = "done"
                ELSE outcome' = outcome /\ rpc' = "sleep"
    /\ UNCHANGED <<throttled, final, now, deadline, delay, sleep, requests, status, exc>>

\* time.sleep(sleep), then the next attempt.
Sleep ==
    /\ UNCHANGED notRetry
    /\ rpc = "sleep"
    /\ now' = now + sleep
    /\ rpc' = "call"
    /\ UNCHANGED <<throttled, final, deadline, delay, sleep, requests, status, exc, outcome>>

NextRetry == GetPatch \/ OnError \/ Sleep

(***************************************************************************)
(* EEUtils.export_training_data and _export_to_cloud_storage,              *)
(* utils.py lines 84-103.  `tasks` are the export tasks created on the     *)
(* Earth Engine side.                                                      *)
(***************************************************************************)
MaxCalls == 3

ExportTypes == {"cloud", "Cloud", "drive"}

\* **params: the description and file_prefix keywords ("absent": not passed).
Kwargs == [description : {"absent", "d1"}, file_prefix : {"absent", "p1"}]

\* Slip: the export type is compared case-insensitively.
IsCloudAnyCase(export_type) == export_type \in {"cloud", "Cloud"}

\* line 86
IsCloud(export_type) == export_type = "cloud"

\* Slip: the task is started whatever start_training says.
StartsAlways(start_training) == TRUE

\* line 103
Starts(start_training) == start_training

\* lines 93-103: the task _export_to_cloud_storage creates.
ExportToCloudStorage(start_training, kw) ==
    LET description == IF kw.description = "absent" THEN "myExportTableTask"
                       ELSE kw.description
    IN [ description    |-> description,
         fileNamePrefix |-> IF kw.file_prefix # "absent" THEN kw.file_prefix
                            ELSE description,
         started        |-> Starts(start_training) ]

ExportIdle ==
    /\ tasks = <<>> /\ calls = 0
    /\ lastCall = [export_type |-> "none", start_training |-> FALSE]
    /\ exportOutcome = "none"

InitExport == ExportIdle

\* lines 85-89: one call of export_training_data.
ExportTrainingData ==
    /\ UNCHANGED notExport
    /\ calls < MaxCalls
    /\ \E export_type \in ExportTypes, start_training \in BOOLEAN, kw \in Kwargs :
         /\ lastCall' = [export_type |-> export_type, start_training |-> start_training]
         /\ IF IsCloud(export_type)
              THEN /\ tasks' = Append(tasks, ExportToCloudStorage(start_training, kw))
                   /\ exportOutcome' = "returned"
              ELSE /\ tasks' = tasks
                   /\ exportOutcome' = "NotImplementedError"
    /\ calls' = calls + 1

NextExport == ExportTrainingData

(***************************************************************************)
(* Utils.filter_good_patches, utils.py lines 254-270.  A float32 is NaN,   *)
(* an infinity, or a finite value; finite values are counted in units of   *)
(* 1e38, so the largest finite float32 (about 3.4e38) is FloatMax units.   *)
(***************************************************************************)
MaxPatchLen == 2
FloatMax == 3

NaN == [kind |-> "nan", v |-> 0]
PosInf == [kind |-> "inf", v |-> 1]
NegInf == [kind |-> "inf", v |-> -1]
Finite(x) == [kind |-> "finite", v |-> x]

FloatValues == {NaN, PosInf, NegInf} \cup {Finite(x) : x \in {-FloatMax, -1, 0, 1, FloatMax}}

\* float32 addition: NaN is contagious, inf + -inf is NaN, a finite sum beyond
\* the largest finite value overflows to an infinity.
FloatAdd(a, b) ==
    IF a.kind = "nan" \/ b.kind = "nan" THEN NaN
    ELSE IF a.kind = "inf" /\ b.kind = "inf" THEN (IF a.v = b.v THEN a ELSE NaN)
    ELSE IF a.kind = "inf" THEN a
    ELSE IF b.kind = "inf" THEN b
    ELSE IF a.v + b.v > FloatMax THEN PosInf
    ELSE IF a.v + b.v < -FloatMax THEN NegInf
    ELSE Finite(a.v + b.v)

\* np.sum(patch.view(np.float32)): the values added up from left to right.
RECURSIVE NpSum(_)
NpSum(p) == IF p = <<>> THEN Finite(0) ELSE FloatAdd(NpSum(SubSeq(p, 1, Len(p) - 1)), p[Len(p)])

IsNan(x) == x.kind = "nan"
IsInf(x) == x.kind = "inf"

\* lines 266-270
FilterGoodPatches(p) ==
    LET has_nan == IsNan(NpSum(p))
        has_inf == IsInf(NpSum(p))
    IN IF has_nan \/ has_inf THEN FALSE ELSE TRUE

FilterIdle == fpatch = <<>> /\ fpatch0 = <<>> /\ fresult = FALSE /\ fpc = "idle"

InitFilter ==
    /\ fpatch \in SeqUpTo(FloatValues, MaxPatchLen)
    /\ fpatch0 = fpatch
    /\ fresult = FALSE
    /\ fpc = "call"

\* One call of filter_good_patches(fpatch); the view shares the patch's memory
\* and nothing is written through it.
ApplyFilter ==
    /\ UNCHANGED notFilter
    /\ fpc = "call"
    /\ fresult' = FilterGoodPatches(fpatch)
    /\ fpc' = "done"
    /\ UNCHANGED <<fpatch, fpatch0>>

NextFilter == ApplyFilter

(***************************************************************************)
(* Utils.plot_metrics, utils.py lines 222-252.  `history` is the set of    *)
(* keys of the history mapping; `ax` is what plt.subplots returned.        *)
(***************************************************************************)
MaxMetrics == 3

MetricNames == {"loss", "acc"}

Val(metric) == IF metric = "loss" THEN "val_loss" ELSE "val_acc"

HistoryKeys == MetricNames \cup {Val(m) : m \in MetricNames}

PlotIdle ==
    /\ metrics = <<>> /\ history = {} /\ ax = "unset" /\ pi = -1
    /\ skipped = <<>> /\ plotted = <<>> /\ plotOutcome = "none" /\ ppc = "idle"

InitPlot ==
    /\ metrics \in SeqUpTo(MetricNames, MaxMetrics)
    /\ history \in SUBSET HistoryKeys
    /\ ax = "unset"
    /\ pi = -1
    /\ skipped = <<>>
    /\ plotted = <<>>
    /\ plotOutcome = "none"
    /\ ppc = "subplots"

\* line 236: plt.subplots(nrows=len(metrics), ...) refuses zero rows, returns one
\* Axes object for one row (squeeze) and an array of Axes for more.
Subplots ==
    /\ UNCHANGED notPlot
    /\ ppc = "subplots"
    /\ IF Len(metrics) = 0
         THEN ax' = ax /\ plotOutcome' = "ValueError" /\ ppc' = "done"
         ELSE /\ ax' = IF Len(metrics) = 1 THEN "Axes" ELSE "ndarray"
              /\ plotOutcome' = plotOutcome
              /\ ppc' = "for"
    /\ UNCHANGED <<metrics, history, pi, skipped, plotted>>

\* lines 240-243, as far as the try block gets before it raises.
TryPlot(metric) ==
    IF ax = "Axes" THEN [lines |-> <<>>, raised |-> "TypeError"]
    ELSE IF metric \notin history THEN [lines |-> <<>>, raised |-> "KeyError"]
    ELSE IF Val(metric) \notin history
           THEN [lines |-> <<<<"Training", metric>>>>, raised |-> "KeyError"]
    ELSE [lines |-> <<<<"Training", metric>>, <<"Validation", metric>>>>, raised |-> "none"]

\* lines 238-247: one iteration of the loop; a failure is logged and skipped.
PlotMetric ==
    /\ UNCHANGED notPlot
    /\ ppc = "for"
    /\ pi + 1 < Len(metrics)
    /\ pi' = pi + 1
    /\ LET metric == metrics[pi + 2]
           r == TryPlot(metric)
       IN /\ plotted' = plotted \o r.lines
          /\ skipped' = IF r.raised # "none" THEN Append(skipped, metric) ELSE skipped
    /\ UNCHANGED <<metrics, history, ax, plotOutcome, ppc>>

\* lines 249-252: after the loop, ax[i] is used again outside any try.
FinishPlot ==
    /\ UNCHANGED notPlot
    /\ ppc = "for"
    /\ pi + 1 = Len(metrics)
    /\ plotOutcome' = IF ax = "Axes" THEN "TypeError" ELSE "returned"
    /\ ppc' = "done"
    /\ UNCHANGED <<metrics, history, ax, pi, skipped, plotted>>

NextPlot == Subplots \/ PlotMetric \/ FinishPlot

(***************************************************************************)
(* Specifications, one per component.                                      *)
(***************************************************************************)
StartReasm == InitReasm /\ RetryIdle /\ ExportIdle /\ FilterIdle /\ PlotIdle

SpecReasm == StartReasm /\ [][NextReasm]_vars

StartRetry == ReasmIdle /\ InitRetry /\ ExportIdle /\ FilterIdle /\ PlotIdle

\* Every step of the retry wrapper completes: a response arrives, a sleep ends.
SpecRetry == StartRetry /\ [][NextRetry]_vars /\ WF_vars(NextRetry)

StartExport == ReasmIdle /\ RetryIdle /\ InitExport /\ FilterIdle /\ PlotIdle

SpecExport == StartExport /\ [][NextExport]_vars

StartFilter == ReasmIdle /\ RetryIdle /\ ExportIdle /\ InitFilter /\ PlotIdle

SpecFilter == StartFilter /\ [][NextFilter]_vars

StartPlot == ReasmIdle /\ RetryIdle /\ ExportIdle /\ FilterIdle /\ InitPlot

SpecPlot == StartPlot /\ [][NextPlot]_vars

(***************************************************************************)
(* Claims about the retried download.                                      *)
(***************************************************************************)
ThreeThrottledThenSuccess == throttled = 3 /\ final = 200

\* C5: when the server answers 429 three times and then 200, the call eventually
\* ends, and it ends by returning the payload unless the wrapper gave up because
\* the next sleep would pass the 300-second deadline; no other error surfaces.
C5_ThreeRetriesThenPayload ==
    /\ ThreeThrottledThenSuccess ~> (rpc = "done")
    /\ [](ThreeThrottledThenSuccess /\ rpc = "done" =>
            \/ outcome = "payload" /\ requests = 4
            \/ outcome = "RetryError" /\ now + sleep > Timeout)

C5_Witness ==
    /\ ThreeThrottledThenSuccess /\ rpc = "done"
    /\ outcome = "payload" /\ requests = 4 /\ now <= Timeout

IsOtherHttpError(code) == code >= 400 /\ code < 600 /\ code # 429

\* C6: once a request is answered with an HTTP error other than 429, the call
\* can only end with that error: it is raised to the caller as HTTPError, the
\* wrapper neither sleeps nor issues another request, and no payload is returned.
C6_OtherErrorsFatal ==
    IsOtherHttpError(status) =>
        /\ requests = throttled + 1
        /\ \/ rpc = "except" /\ outcome = "none"
           \/ rpc = "done" /\ outcome = "HTTPError"

C6_Witness ==
    /\ status = 503 /\ rpc = "done" /\ outcome = "HTTPError"
    /\ throttled = 2 /\ requests = 3

\* C7: against a server that always answers 429, every request is issued no
\* later than the 300-second deadline, no payload is ever returned, and the call
\* eventually ends with the wrapper's RetryError.
C7_RetryBounded ==
    /\ [](final = 429 => outcome # "payload")
    /\ [](final = 429 /\ rpc = "call" => now <= Timeout)
    /\ (final = 429) ~> (rpc = "done" /\ outcome = "RetryError")

C7_Witness ==
    /\ final = 429 /\ rpc = "done" /\ outcome = "RetryError"
    /\ requests >= 5 /\ now <= Timeout

(***************************************************************************)
(* Claim about export_training_data.                                       *)
(***************************************************************************)
\* C8: every call with an export_type other than "cloud" ends in
\* NotImplementedError and leaves the tasks as they were; every call with
\* "cloud" returns and adds exactly one task, started iff start_training.
C8_ExportDispatch ==
    [][calls' = calls + 1 =>
          IF lastCall'.export_type # "cloud"
            THEN exportOutcome' = "NotImplementedError" /\ tasks' = tasks
            ELSE /\ exportOutcome' = "returned"
                 /\ Len(tasks') = Len(tasks) + 1
                 /\ SubSeq(tasks', 1, Len(tasks)) = tasks
                 /\ tasks'[Len(tasks')].started = lastCall'.start_training]_vars

C8_Witness ==
    /\ calls = 3 /\ Len(tasks) = 2
    /\ tasks[1].started /\ ~tasks[2].started
    /\ lastCall.export_type = "Cloud" /\ exportOutcome = "NotImplementedError"

(***************************************************************************)
(* Claim about filter_good_patches.                                        *)
(***************************************************************************)
AllFiniteValues(p) == \A k \in 1..Len(p) : p[k].kind = "finite"

\* C9: the filter returns False for every patch holding a NaN or an infinity,
\* True for every patch whose values are all finite, and leaves the patch as
\* it was.
C9_FilterExact ==
    fpc = "done" => (fresult = AllFiniteValues(fpatch0) /\ fpatch = fpatch0)

(***************************************************************************)
(* Claim about plot_metrics.                                               *)
(***************************************************************************)
\* C10: for every list of metrics the call returns normally, and every metric
\* whose plotting failed was logged as skipped.
C10_PlotNeverFails ==
    ppc = "done" =>
        /\ plotOutcome = "returned"
        /\ \A k \in 1..Len(metrics) :
             (metrics[k] \notin history \/ Val(metrics[k]) \notin history)
                => \E j \in 1..Len(skipped) : skipped[j] = metrics[k]

====
